---- MODULE Spec2Model ----
(***************************************************************************)
(* Server-Monitor (src/app.py): the metrics collector thread, the two rate *)
(* trackers, the SQLite store with its retention sweep, and the request    *)
(* handlers that touch the same state.                                     *)
(*                                                                         *)
(* Time is the wall clock in whole seconds.  Counters are the cumulative   *)
(* psutil counters.  A Python float quotient a / b is kept as the exact    *)
(* fraction <<a, b>> until round() is applied to it.                       *)
(***************************************************************************)
EXTENDS Integers, FiniteSets, Sequences, TLC

VARIABLES
    clock,          \* time.time()
    phase,          \* lifespan: "startup", "serving" or "shutdown"
    running,        \* MetricsCollector._running
    prev_net,       \* MetricsCollector._prev_net   (<<>> is None)
    prev_time,      \* MetricsCollector._prev_time
    pc,             \* per collector thread: where it is in _run / _collect
    tick,           \* per collector thread: the locals of _collect, and how
                    \* its last call ended
    disk_tracker,   \* the module-level DiskSpeedTracker instance
    net_tracker,    \* the module-level NetworkSpeedTracker instance
    gs,             \* per caller: the locals of DiskSpeedTracker.get_speed
    reqpc,          \* the event loop: where current_metrics is
    store,          \* rows of table metrics in DB_PATH
    nextId,         \* the AUTOINCREMENT sequence of table metrics
    dt_by,          \* history: which caller last wrote _prev_disk / _prev_time
    stopSeen,       \* history: threads that were alive when stop() was called
    query,          \* the last call of get_metrics: its range, its status,
                    \* the time.time() it read, the rows its SELECT ran
                    \* against, and the response
    nt_before,      \* history: NetworkSpeedTracker._prev_all before the last
                    \* call of its get_speed
    if_stats,       \* psutil.net_if_stats() / net_if_addrs() at import time
    default_nic,    \* the module-level DEFAULT_NIC (<<>> before it is assigned)
    net_conns,      \* what psutil.net_connections(kind="inet") does on this
                    \* host: the exception it raises or the list it returns
    reply,          \* the reply to the latest request of /api/current (its
                    \* "connections") or /api/interfaces; none while the
                    \* handler of /api/current runs
    bench,          \* _benchmark_running, _benchmark_processes, and per
                    \* benchmark request where its handler and its worker
                    \* processes are
    temp_db,        \* the file DB_PATH + ".tmp" (<<>> when there is none)
    restored        \* history: the last request of /api/restore that a
                    \* client kept: its upload, the store it found, its
                    \* response

vars == <<clock, phase, running, prev_net, prev_time, pc, tick, disk_tracker,
          net_tracker, gs, reqpc, store, nextId, dt_by, stopSeen, query, nt_before,
          if_stats, default_nic, net_conns, reply, bench, temp_db, restored>>

-----------------------------------------------------------------------------
(* Program constants *)

COLLECT_INTERVAL == 30

RETENTION_DAYS == 31

MAX_RATE == 50000000

SECONDS_PER_DAY == 86400

-----------------------------------------------------------------------------
(* Bounds of the model *)

\* collector threads that start() may create
MaxThreads == 2

\* rows the store accepts before an INSERT fails (database or disk full)
MaxId == 2

Threads == 1..MaxThreads

\* the event loop thread, which runs lifespan and the request handlers
EventLoop == 0

Callers == Threads \cup {EventLoop}

\* interfaces psutil.net_if_stats() may list
MaxIfaces == 3

\* requests of /api/benchmark/cpu are numbered 1..MaxRuns
MaxRuns == 2

\* instants the wall clock is observed at: two close ones, and one a
\* retention period later
ClockValues == {0, 5, RETENTION_DAYS * SECONDS_PER_DAY + 5}

ShortClock == {0, 5}

-----------------------------------------------------------------------------
(* Python values *)

None == <<>>

Some(x) == <<x>>

\* Python 3 round(n / d) for d > 0: nearest integer, ties to even
Round(n, d) ==
    LET q == n \div d
        r == n % d
    IN  IF 2 * r < d THEN q
        ELSE IF 2 * r > d THEN q + 1
        ELSE IF q % 2 = 0 THEN q ELSE q + 1

RECURSIVE Gcd(_, _)
Gcd(a, b) == IF b = 0 THEN a ELSE Gcd(b, a % b)

Abs(a) == IF a < 0 THEN 0 - a ELSE a

\* the float n / d for d > 0, in lowest terms
Quotient(n, d) == LET g == Gcd(Abs(n), d) IN <<n \div g, d \div g>>

\* round(x) of a float x
RoundFloat(x) == Round(x[1], x[2])

Zero == <<0, 1>>

-----------------------------------------------------------------------------
(* The operating system, as psutil shows it *)

Counters(bs, br, ps, pr) ==
    [bytes_sent |-> bs, bytes_recv |-> br, packets_sent |-> ps, packets_recv |-> pr]

Loopback == Counters(7, 7, 1, 1)

\* psutil.net_io_counters(pernic=True) with the default interface present
NicReading(c) == [n \in {"eth0", "lo"} |-> IF n = "eth0" THEN c ELSE Loopback]

NicQuiet == NicReading(Counters(1500, 1000, 15, 40))

\* an earlier reading of the same counters
NicBase == NicReading(Counters(1000, 1000, 10, 40))

NicBusy == NicReading(Counters(250001502, 260000000, 30, 90))

\* the default interface is missing from the reading
NicGone == [n \in {"docker0", "lo"} |-> IF n = "docker0" THEN Counters(70, 90, 2, 3) ELSE Loopback]

\* readings of the interface counters: successive readings are unrelated,
\* since counters restart on an interface reset
NicSnapshots == {NicQuiet, NicBusy}

NicSnapshotsOrGone == {NicQuiet, NicBusy, NicGone}

OneNicSnapshot == {NicQuiet}

\* the default interface is there at one reading and missing at another
AbsentNics == {NicQuiet, NicGone}

\* readings in which counters grow, fall, and interfaces come and go
TrackerNics == {NicBase, NicQuiet, NicBusy, NicGone}

TwoNicSnapshots == {NicBase, NicQuiet}

RECURSIVE SumNics(_, _)
SumNics(per_nic, names) ==
    IF names = {} THEN Counters(0, 0, 0, 0)
    ELSE LET n == CHOOSE x \in names : TRUE
             rest == SumNics(per_nic, names \ {n})
         IN  Counters(rest.bytes_sent + per_nic[n].bytes_sent,
                      rest.bytes_recv + per_nic[n].bytes_recv,
                      rest.packets_sent + per_nic[n].packets_sent,
                      rest.packets_recv + per_nic[n].packets_recv)

\* psutil.net_io_counters(): the sum over all interfaces
TotalCounters(per_nic) == SumNics(per_nic, DOMAIN per_nic)

DiskCounters(rb, wb, rc, wc) ==
    [read_bytes |-> rb, write_bytes |-> wb, read_count |-> rc, write_count |-> wc]

\* psutil.disk_io_counters(): None on a host without disks
DiskReadings ==
    { None, Some(DiskCounters(4096, 0, 1, 0)), Some(DiskCounters(12288, 6000, 3, 7)) }

OneDiskReading == { Some(DiskCounters(4096, 0, 1, 0)) }

-----------------------------------------------------------------------------
(* Interface names.  A name is a string; Spelling gives its characters as   *)
(* code points, which is what the regular expression and the sort compare.  *)

Spelling ==
    [ lo      |-> <<108, 111>>,
      eth0    |-> <<101, 116, 104, 48>>,
      ens3    |-> <<101, 110, 115, 51>>,
      docker0 |-> <<100, 111, 99, 107, 101, 114, 48>> ]

IfaceNames == DOMAIN Spelling

\* the alternatives of _VIRTUAL_NIC_PATTERNS: lo, docker\d*, veth, br-, virbr,
\* tun, tap, wg, tailscale, dummy, bond_slave, sit, ip6tnl
VirtualPrefixes ==
    { <<108, 111>>,
      <<100, 111, 99, 107, 101, 114>>,
      <<118, 101, 116, 104>>,
      <<98, 114, 45>>,
      <<118, 105, 114, 98, 114>>,
      <<116, 117, 110>>,
      <<116, 97, 112>>,
      <<119, 103>>,
      <<116, 97, 105, 108, 115, 99, 97, 108, 101>>,
      <<100, 117, 109, 109, 121>>,
      <<98, 111, 110, 100, 95, 115, 108, 97, 118, 101>>,
      <<115, 105, 116>>,
      <<105, 112, 54, 116, 110, 108>> }

IsPrefix(p, w) == Len(p) <= Len(w) /\ \A i \in 1..Len(p) : p[i] = w[i]

\* _VIRTUAL_NIC_PATTERNS.match(iface): the pattern is anchored at the start
\* only, and \d* also matches no digit
IsVirtual(iface) == \E p \in VirtualPrefixes : IsPrefix(p, Spelling[iface])

\* Python's str < str: by code point, a proper prefix is smaller
RECURSIVE SeqLess(_, _)
SeqLess(a, b) ==
    IF b = << >> THEN FALSE
    ELSE IF a = << >> THEN TRUE
    ELSE IF Head(a) # Head(b) THEN Head(a) < Head(b)
    ELSE SeqLess(Tail(a), Tail(b))

StrLess(a, b) == SeqLess(Spelling[a], Spelling[b])

\* one entry of net_if_stats() with the address families of net_if_addrs()
Iface(name, isup, families) == [name |-> name, isup |-> isup, families |-> families]

\* the host the collector is modelled on
HostStats ==
    << Iface("lo", TRUE, {"AF_INET", "AF_INET6"}),
       Iface("docker0", TRUE, {"AF_INET"}),
       Iface("eth0", TRUE, {"AF_INET", "AF_PACKET"}) >>

AddressFamilies == { {"AF_PACKET"}, {"AF_INET", "AF_PACKET"} }

\* snapshots of up to MaxIfaces interfaces, in every enumeration order
IfaceSnapshots ==
    UNION { { s \in [1..n -> [name : IfaceNames, isup : BOOLEAN, families : AddressFamilies]] :
                \A i, j \in 1..n : i # j => s[i].name # s[j].name } : n \in 0..MaxIfaces }

SortKeyIpv4Last(c) == <<IF c.has_ipv4 THEN 1 ELSE 0, c.iface>>

\* key=lambda x: (not x[1], x[0])
SortKey(c) == <<IF c.has_ipv4 THEN 0 ELSE 1, c.iface>>

\* tuple comparison of two sort keys
KeyLess(k, l) == k[1] < l[1] \/ (k[1] = l[1] /\ StrLess(k[2], l[2]))

\* list.sort(key=...) is stable: an element goes behind the elements whose
\* key is not greater than its own
RECURSIVE InsertSorted(_, _)
InsertSorted(c, sorted) ==
    IF sorted = << >> THEN <<c>>
    ELSE IF KeyLess(SortKey(c), SortKey(Head(sorted))) THEN <<c>> \o sorted
    ELSE <<Head(sorted)>> \o InsertSorted(c, Tail(sorted))

RECURSIVE SortCandidates(_)
SortCandidates(cs) ==
    IF cs = << >> THEN << >>
    ELSE InsertSorted(cs[Len(cs)], SortCandidates(SubSeq(cs, 1, Len(cs) - 1)))

\* the loop over stats.items(): skip virtual names, skip interfaces that are
\* down, note whether an AF_INET address exists
Candidates(stats) ==
    LET kept == SelectSeq(stats, LAMBDA e : ~IsVirtual(e.name) /\ e.isup)
    IN  [i \in 1..Len(kept) |->
            [iface |-> kept[i].name, has_ipv4 |-> "AF_INET" \in kept[i].families]]

FallbackFirstListed(stats) == IF stats # << >> THEN stats[1].name ELSE "lo"

\* "Ultimate fallback": the first name in stats that is not 'lo', else 'lo'
FallbackNic(stats) ==
    LET others == SelectSeq(stats, LAMBDA e : e.name # "lo")
    IN  IF others # << >> THEN others[1].name ELSE "lo"

detect_default_nic(stats) ==
    LET candidates == SortCandidates(Candidates(stats))
    IN  IF candidates # << >> THEN candidates[1].iface ELSE FallbackNic(stats)

\* DEFAULT_NIC = _detect_default_nic() on the modelled host
DEFAULT_NIC == detect_default_nic(HostStats)

-----------------------------------------------------------------------------
(* Pure parts of the code *)

\* _get_default_nic_counters, given the per-interface reading
get_default_nic_counters(per_nic) ==
    IF default_nic[1] \in DOMAIN per_nic THEN per_nic[default_nic[1]]
    ELSE TotalCounters(per_nic)

RawRateOfAbs(cur, prev, elapsed) ==
    IF elapsed # 0 THEN Round(cur - prev, Abs(elapsed)) ELSE 0

\* _collect: round((cur - prev) / elapsed) if elapsed > 0 else 0
RawRate(cur, prev, elapsed) ==
    IF elapsed > 0 THEN Round(cur - prev, elapsed) ELSE 0

CapRateToCeiling(rate) ==
    IF rate > MAX_RATE THEN MAX_RATE ELSE IF rate < 0 THEN 0 ELSE rate

CapRateAboveOnly(rate) ==
    IF rate > MAX_RATE THEN 0 ELSE rate

\* _collect: "Cap spikes": a rate above MAX_RATE or below 0 becomes 0
CapRate(rate) ==
    IF rate > MAX_RATE \/ rate < 0 THEN 0 ELSE rate

NicSpeedBytes(cur, prev, elapsed) ==
    IF prev = None \/ elapsed <= 0
    THEN [sent_bps |-> 0, recv_bps |-> 0, sent_pps |-> 0, recv_pps |-> 0,
          sent_total |-> cur.bytes_sent, recv_total |-> cur.bytes_recv]
    ELSE [sent_bps |-> Round(cur.bytes_sent - prev[1].bytes_sent, elapsed),
          recv_bps |-> Round(cur.bytes_recv - prev[1].bytes_recv, elapsed),
          sent_pps |-> Round(cur.packets_sent - prev[1].packets_sent, elapsed),
          recv_pps |-> Round(cur.packets_recv - prev[1].packets_recv, elapsed),
          sent_total |-> cur.bytes_sent, recv_total |-> cur.bytes_recv]

NicSpeedFromZero(cur, prev, elapsed) ==
    LET base == IF prev = None THEN Counters(0, 0, 0, 0) ELSE prev[1]
    IN  IF elapsed <= 0
        THEN [sent_bps |-> 0, recv_bps |-> 0, sent_pps |-> 0, recv_pps |-> 0,
              sent_total |-> cur.bytes_sent, recv_total |-> cur.bytes_recv]
        ELSE [sent_bps |-> Round((cur.bytes_sent - base.bytes_sent) * 8, elapsed),
              recv_bps |-> Round((cur.bytes_recv - base.bytes_recv) * 8, elapsed),
              sent_pps |-> Round(cur.packets_sent - base.packets_sent, elapsed),
              recv_pps |-> Round(cur.packets_recv - base.packets_recv, elapsed),
              sent_total |-> cur.bytes_sent, recv_total |-> cur.bytes_recv]

\* NetworkSpeedTracker.get_speed: the entry of one interface
NicSpeed(cur, prev, elapsed) ==
    IF prev = None \/ elapsed <= 0
    THEN [sent_bps |-> 0, recv_bps |-> 0, sent_pps |-> 0, recv_pps |-> 0,
          sent_total |-> cur.bytes_sent, recv_total |-> cur.bytes_recv]
    ELSE [sent_bps |-> Round((cur.bytes_sent - prev[1].bytes_sent) * 8, elapsed),
          recv_bps |-> Round((cur.bytes_recv - prev[1].bytes_recv) * 8, elapsed),
          sent_pps |-> Round(cur.packets_sent - prev[1].packets_sent, elapsed),
          recv_pps |-> Round(cur.packets_recv - prev[1].packets_recv, elapsed),
          sent_total |-> cur.bytes_sent, recv_total |-> cur.bytes_recv]

\* dict.get(nic): None when the key is absent
DictGet(d, k) == IF k \in DOMAIN d THEN Some(d[k]) ELSE None

\* NetworkSpeedTracker.get_speed: the tracker after a call at time now that
\* read cur_all
NetGetSpeed(tr, now, cur_all) ==
    LET elapsed == now - tr.prev_time
    IN  [prev_all |-> cur_all,
         prev_time |-> now,
         speeds |-> [nic \in DOMAIN cur_all |->
                        NicSpeed(cur_all[nic], DictGet(tr.prev_all, nic), elapsed)]]

\* DiskSpeedTracker.get_speed, the branch that recomputes the four rates and
\* the assignment of _prev_disk that follows it
DiskSetRates(tr, f) ==
    IF f.elapsed > 0 /\ f.disk # None /\ tr.prev_disk # None
    THEN [tr EXCEPT
            !.read_bps   = Quotient(f.disk[1].read_bytes - tr.prev_disk[1].read_bytes, f.elapsed),
            !.write_bps  = Quotient(f.disk[1].write_bytes - tr.prev_disk[1].write_bytes, f.elapsed),
            !.read_iops  = Quotient(f.disk[1].read_count - tr.prev_disk[1].read_count, f.elapsed),
            !.write_iops = Quotient(f.disk[1].write_count - tr.prev_disk[1].write_count, f.elapsed),
            !.prev_disk  = f.disk]
    ELSE [tr EXCEPT !.prev_disk = f.disk]

\* DiskSpeedTracker.get_speed: the dict it returns
DiskResult(tr) ==
    [read_bps |-> RoundFloat(tr.read_bps), write_bps |-> RoundFloat(tr.write_bps),
     read_iops |-> RoundFloat(tr.read_iops), write_iops |-> RoundFloat(tr.write_iops)]

ZeroSpeed == [read_bps |-> 0, write_bps |-> 0, read_iops |-> 0, write_iops |-> 0]

\* json.dumps(v): a TEXT column holds the text of a JSON value, kept as the
\* value it encodes; <<>> is a column that is NULL or the empty text
JsonDumps(v) == Some(v)

\* json.loads(col) if col else {}
JsonLoads(col) == IF col = None THEN << >> ELSE col[1]

\* psutil.cpu_percent, virtual_memory() and disk_usage("/") on this host:
\* percentages in tenths, gigabytes in hundredths (they are stored after
\* round(..., 2))
HostGauges ==
    [cpu_percent |-> 125, ram_percent |-> 403, ram_used_gb |-> 161,
     ram_total_gb |-> 400, disk_percent |-> 250, disk_used_gb |-> 1000,
     disk_total_gb |-> 4000]

\* _get_connection_counts: ip_to_iface, built from psutil.net_if_addrs()
HostAddrs ==
    ("127.0.0.1" :> "lo") @@ ("172.17.0.1" :> "docker0") @@ ("10.0.0.2" :> "eth0")

\* one entry of psutil.net_connections(): laddr is <<>> when the socket is
\* not bound
Conn(laddr, type) == [laddr |-> laddr, type |-> type]

\* the exceptions the except clause of _get_connection_counts names
ConnErrors == {"psutil.AccessDenied", "OSError"}

NetConns(raises, conns) == [raises |-> raises, conns |-> conns]

\* the connection table of this host on an ordinary day
HostConns ==
    NetConns("none", <<Conn(Some("10.0.0.2"), "SOCK_STREAM"),
                       Conn(Some("127.0.0.1"), "SOCK_DGRAM")>>)

\* what psutil.net_connections may do: deny access, fail with an OS error,
\* or return a list of bound and unbound sockets
ConnTables ==
    { NetConns("psutil.AccessDenied", << >>),
      NetConns("OSError", << >>),
      NetConns("none", << >>),
      HostConns,
      NetConns("none", <<Conn(Some("10.0.0.2"), "SOCK_STREAM"),
                         Conn(None, "SOCK_STREAM"),
                         Conn(Some("192.0.2.7"), "SOCK_DGRAM"),
                         Conn(Some("10.0.0.2"), "SOCK_DGRAM")>>) }

NoCounts == [tcp |-> 0, udp |-> 0]

OnConnErrorEmpty == << >>

\* _get_connection_counts: the value returned by the except clause
OnConnError == "Total" :> NoCounts

\* _get_connection_counts: the loop over conns; acc holds result, total_tcp
\* and total_udp
RECURSIVE CountConnections(_, _)
CountConnections(conns, acc) ==
    IF conns = << >> THEN acc
    ELSE LET c == Head(conns)
         IN  IF c.laddr = None
             THEN CountConnections(Tail(conns), acc)
             ELSE LET local_ip == c.laddr[1]
                      iface == IF local_ip \in DOMAIN HostAddrs
                               THEN HostAddrs[local_ip] ELSE "other"
                      old == IF iface \in DOMAIN acc.result
                             THEN acc.result[iface] ELSE NoCounts
                  IN  CountConnections(Tail(conns),
                         IF c.type = "SOCK_STREAM"
                         THEN [result |-> (iface :> [old EXCEPT !.tcp = @ + 1]) @@ acc.result,
                               total_tcp |-> acc.total_tcp + 1,
                               total_udp |-> acc.total_udp]
                         ELSE IF c.type = "SOCK_DGRAM"
                         THEN [result |-> (iface :> [old EXCEPT !.udp = @ + 1]) @@ acc.result,
                               total_tcp |-> acc.total_tcp,
                               total_udp |-> acc.total_udp + 1]
                         ELSE [acc EXCEPT !.result = (iface :> old) @@ acc.result])

CountsWithUnbound(nc) ==
    IF nc.raises \in ConnErrors
    THEN OnConnError
    ELSE LET acc == CountConnections(nc.conns,
                        [result |-> << >>, total_tcp |-> 0, total_udp |-> 0])
             kind(ty) == Cardinality({i \in DOMAIN nc.conns : nc.conns[i].type = ty})
         IN  ("Total" :> [tcp |-> kind("SOCK_STREAM"), udp |-> kind("SOCK_DGRAM")])
                 @@ acc.result

\* _get_connection_counts()
get_connection_counts(nc) ==
    IF nc.raises \in ConnErrors
    THEN OnConnError
    ELSE LET acc == CountConnections(nc.conns,
                        [result |-> << >>, total_tcp |-> 0, total_udp |-> 0])
         IN  ("Total" :> [tcp |-> acc.total_tcp, udp |-> acc.total_udp]) @@ acc.result

SampleAtInsertTime(id, t) ==
    [id |-> id, timestamp |-> clock,
     cpu_percent |-> HostGauges.cpu_percent, ram_percent |-> HostGauges.ram_percent,
     ram_used_gb |-> HostGauges.ram_used_gb, ram_total_gb |-> HostGauges.ram_total_gb,
     disk_percent |-> HostGauges.disk_percent, disk_used_gb |-> HostGauges.disk_used_gb,
     disk_total_gb |-> HostGauges.disk_total_gb,
     net_sent_bytes |-> t.net.bytes_sent, net_recv_bytes |-> t.net.bytes_recv,
     net_sent_rate |-> t.sent_rate, net_recv_rate |-> t.recv_rate,
     conn_json |-> JsonDumps(t.conn_data),
     extra_json |-> JsonDumps(t.disk_speed_data), origin |-> "collector"]

\* the row _collect inserts; extra_json is kept by its four disk entries
Sample(id, t) ==
    [id |-> id, timestamp |-> t.now,
     cpu_percent |-> HostGauges.cpu_percent, ram_percent |-> HostGauges.ram_percent,
     ram_used_gb |-> HostGauges.ram_used_gb, ram_total_gb |-> HostGauges.ram_total_gb,
     disk_percent |-> HostGauges.disk_percent, disk_used_gb |-> HostGauges.disk_used_gb,
     disk_total_gb |-> HostGauges.disk_total_gb,
     net_sent_bytes |-> t.net.bytes_sent, net_recv_bytes |-> t.net.bytes_recv,
     net_sent_rate |-> t.sent_rate, net_recv_rate |-> t.recv_rate,
     conn_json |-> JsonDumps(t.conn_data),
     extra_json |-> JsonDumps(t.disk_speed_data), origin |-> "collector"]

CutoffLeapMonth(now) == now - ((RETENTION_DAYS + 1) * SECONDS_PER_DAY)

\* _collect: cutoff = now - (RETENTION_DAYS * 86400)
Cutoff(now) == now - (RETENTION_DAYS * SECONDS_PER_DAY)

ExpiredInclusive(rows, cutoff) == {r \in rows : r.timestamp <= cutoff}

\* DELETE FROM metrics WHERE timestamp < cutoff: the rows it removes
Expired(rows, cutoff) == {r \in rows : r.timestamp < cutoff}

RangeMapLongMonth ==
    ("1h" :> <<3600, << >> >>) @@ ("2h" :> <<7200, << >> >>) @@
    ("6h" :> <<21600, <<30>> >>) @@ ("12h" :> <<43200, <<60>> >>) @@
    ("1d" :> <<86400, <<120>> >>) @@ ("2d" :> <<172800, <<300>> >>) @@
    ("1w" :> <<604800, <<900>> >>) @@ ("1m" :> <<2764800, <<3600>> >>)

\* RANGE_MAP: range key -> (total_seconds, bucket seconds or None)
RANGE_MAP ==
    ("1h" :> <<3600, None>>) @@ ("2h" :> <<7200, None>>) @@
    ("6h" :> <<21600, Some(30)>>) @@ ("12h" :> <<43200, Some(60)>>) @@
    ("1d" :> <<86400, Some(120)>>) @@ ("2d" :> <<172800, Some(300)>>) @@
    ("1w" :> <<604800, Some(900)>>) @@ ("1m" :> <<2592000, Some(3600)>>)

\* the values the Query pattern of get_metrics admits
RangeKeys == DOMAIN RANGE_MAP

\* a request that carries no range parameter
NoRangeParam == "(absent)"

\* range: str = Query("1h", ...): the default
RangeParam(q) == IF q = NoRangeParam THEN "1h" ELSE q

QueryPatternAny(rg) == TRUE

\* Query(pattern="^(1h|2h|6h|12h|1d|2d|1w|1m)$"): the validation FastAPI runs
\* before the handler; a value that fails it is answered with status 422
QueryPattern(rg) == rg \in {"1h", "2h", "6h", "12h", "1d", "2d", "1w", "1m"}

\* RANGE_MAP.get(range, (3600, None))
RangePolicy(rg) == IF rg \in DOMAIN RANGE_MAP THEN RANGE_MAP[rg] ELSE <<3600, None>>

InWindowAll(rows, cutoff) == rows

\* WHERE timestamp >= cutoff
InWindow(rows, cutoff) == {r \in rows : r.timestamp >= cutoff}

\* the row that comes first under ORDER BY timestamp ASC; rows with one
\* timestamp come in rowid order
FirstRow(rows) ==
    CHOOSE r \in rows :
        \A o \in rows :
            r.timestamp < o.timestamp \/ (r.timestamp = o.timestamp /\ r.id <= o.id)

RECURSIVE OrderByTimestamp(_)
OrderByTimestamp(rows) ==
    IF rows = {} THEN << >>
    ELSE LET r == FirstRow(rows) IN <<r>> \o OrderByTimestamp(rows \ {r})

OldestRow(rows) ==
    CHOOSE r \in rows :
        \A o \in rows :
            r.timestamp < o.timestamp \/ (r.timestamp = o.timestamp /\ r.id <= o.id)

\* the row ORDER BY timestamp DESC LIMIT 1 takes; both sub-selects run the
\* same plan and take the same row when timestamps are equal
LastRow(rows) ==
    CHOOSE r \in rows :
        \A o \in rows :
            r.timestamp > o.timestamp \/ (r.timestamp = o.timestamp /\ r.id >= o.id)

\* the sum of one column over rows
RECURSIVE SumOf(_, _)
SumOf(rows, column) ==
    IF rows = {} THEN 0
    ELSE LET r == CHOOSE x \in rows : TRUE IN r[column] + SumOf(rows \ {r}, column)

\* AVG(column) over a group, then round(): the quotient is rounded to the
\* unit the column is kept in
Avg(rows, column) == Round(SumOf(rows, column), Cardinality(rows))

\* MAX(column) over a group
Max(rows, column) ==
    CHOOSE m \in {r[column] : r \in rows} : \A r \in rows : r[column] <= m

\* CAST(timestamp / bucket AS INTEGER)
BucketOf(ts, bucket) == ts \div bucket

BucketEnd(k, bucket) == (k + 1) * bucket

\* CAST(timestamp / bucket AS INTEGER) * bucket AS bucket_ts
BucketTs(k, bucket) == k * bucket

\* get_metrics, raw branch: one point per row
RawPoint(r) ==
    [t |-> r.timestamp, cpu |-> r.cpu_percent, ram |-> r.ram_percent,
     ram_used |-> r.ram_used_gb, ram_total |-> r.ram_total_gb,
     disk |-> r.disk_percent, disk_used |-> r.disk_used_gb,
     disk_total |-> r.disk_total_gb,
     net_sent |-> r.net_sent_rate, net_recv |-> r.net_recv_rate,
     conns |-> JsonLoads(r.conn_json), extra |-> JsonLoads(r.extra_json)]

GroupOfTable(k, bucket, inwin, all) == {r \in all : BucketOf(r.timestamp, bucket) = k}

\* GROUP BY bucket_ts after WHERE timestamp >= cutoff: the rows of bucket k
GroupOf(k, bucket, inwin, all) == {r \in inwin : BucketOf(r.timestamp, bucket) = k}

\* get_metrics, aggregated branch: the point of bucket k; all is the whole
\* table, which the two sub-selects read
BucketPoint(k, bucket, inwin, all) ==
    LET grp == GroupOf(k, bucket, inwin, all)
        m2 == {r \in all : BucketOf(r.timestamp, bucket) = k}
    IN  [t |-> BucketTs(k, bucket),
         cpu |-> Avg(grp, "cpu_percent"), ram |-> Avg(grp, "ram_percent"),
         ram_used |-> Avg(grp, "ram_used_gb"), ram_total |-> Max(grp, "ram_total_gb"),
         disk |-> Avg(grp, "disk_percent"), disk_used |-> Avg(grp, "disk_used_gb"),
         disk_total |-> Max(grp, "disk_total_gb"),
         net_sent |-> Avg(grp, "net_sent_rate"), net_recv |-> Avg(grp, "net_recv_rate"),
         conns |-> JsonLoads(LastRow(m2).conn_json),
         extra |-> JsonLoads(LastRow(m2).extra_json)]

RECURSIVE BucketPoints(_, _, _, _)
BucketPoints(ks, bucket, inwin, all) ==
    IF ks = {} THEN << >>
    ELSE LET k == CHOOSE x \in ks : \A y \in ks : x <= y
         IN  <<BucketPoint(k, bucket, inwin, all)>>
                 \o BucketPoints(ks \ {k}, bucket, inwin, all)

\* get_metrics: the list "data" for range key rg at time now
MetricsData(rg, now, rows) ==
    LET total_seconds == RangePolicy(rg)[1]
        bucket == RangePolicy(rg)[2]
        inwin == InWindow(rows, now - total_seconds)
    IN  IF bucket = None
        THEN LET ordered == OrderByTimestamp(inwin)
             IN  [i \in 1..Len(ordered) |-> RawPoint(ordered[i])]
        ELSE BucketPoints({BucketOf(r.timestamp, bucket[1]) : r \in inwin},
                          bucket[1], inwin, rows)

IntervalAlwaysCollect(bucket) == COLLECT_INTERVAL

\* interval_sec = bucket if bucket else COLLECT_INTERVAL
IntervalSec(bucket) == IF bucket = None THEN COLLECT_INTERVAL ELSE bucket[1]

\* sum(d[column] for d in data)
RECURSIVE SumPoints(_, _)
SumPoints(data, column) ==
    IF data = << >> THEN 0 ELSE Head(data)[column] + SumPoints(Tail(data), column)

\* round(sum * interval_sec / (1024 ** 3), 2), in hundredths of a gigabyte:
\* sum * interval_sec * 100 / 2^30 = sum * k / 2^28 with k = interval_sec * 25.
\* The product is formed in two halves of sum so that every intermediate
\* value stays below 2^31.
ToGb(sum, interval_sec) ==
    LET k  == interval_sec * 25
        sh == sum \div 16384
        sl == sum % 16384
        n  == (sh * k) + ((sl * k) \div 16384)
        nq == n \div 16384
        rem == ((n % 16384) * 16384) + ((sl * k) % 16384)
    IN  IF 2 * rem < 268435456 THEN nq
        ELSE IF 2 * rem > 268435456 THEN nq + 1
        ELSE nq + (nq % 2)

\* get_metrics: the dict "totals"
MetricsTotals(rg, data) ==
    LET interval_sec == IntervalSec(RangePolicy(rg)[2])
    IN  [sent_gb |-> ToGb(SumPoints(data, "net_sent"), interval_sec),
         recv_gb |-> ToGb(SumPoints(data, "net_recv"), interval_sec)]

-----------------------------------------------------------------------------
(* Initial state: the module has been imported *)

\* no call of _collect is active; outcome, error, inserted and deleted tell
\* how the last call ended, which exception _run printed, how many rows its
\* INSERT added and its DELETE removed
NoTick ==
    [now |-> 0, elapsed |-> 0, net |-> Counters(0, 0, 0, 0),
     sent_rate |-> 0, recv_rate |-> 0, conn_data |-> << >>,
     disk_speed_data |-> ZeroSpeed,
     outcome |-> "none", error |-> "none", inserted |-> 0, deleted |-> 0]

NoFrame == [now |-> 0, disk |-> None, elapsed |-> 0]

\* no call of get_metrics yet
NoTotals == [sent_gb |-> 0, recv_gb |-> 0]

NoQuery == [range |-> "none", status |-> 0, now |-> 0, snapshot |-> {},
            data |-> << >>, totals |-> NoTotals]

\* no reply of /api/current or /api/interfaces yet
NoReply == [route |-> "none"]

\* the module-level objects as their constructors leave them, and no
\* temporary file of a restore
Objects(Nics, Disks) ==
    /\ phase = "startup"
    /\ running = FALSE
    /\ prev_net = None
    /\ prev_time = 0
    /\ pc = [t \in Threads |-> "none"]
    /\ tick = [t \in Threads |-> NoTick]
    /\ \E d \in Disks :
          disk_tracker = [prev_disk |-> d, prev_time |-> 0, read_bps |-> Zero,
                          write_bps |-> Zero, read_iops |-> Zero, write_iops |-> Zero]
    /\ \E s \in Nics :
          net_tracker = [prev_all |-> s, prev_time |-> 0, speeds |-> << >>]
    /\ gs = [c \in Callers |-> NoFrame]
    /\ reqpc = "idle"
    /\ dt_by = [disk |-> EventLoop, time |-> EventLoop]
    /\ stopSeen = {}
    /\ query = NoQuery
    /\ nt_before = None
    /\ reply = NoReply
    /\ bench = [running |-> FALSE, processes |-> {},
                run |-> [r \in 1..MaxRuns |-> "none"]]
    /\ temp_db = None
    /\ restored = [upload |-> None, live |-> {}, status |-> 0, detail |-> "none"]

\* the module-level objects, and a database file that does not exist yet
Constructed(Nics, Disks) ==
    /\ Objects(Nics, Disks)
    /\ clock = 0
    /\ store = {}
    /\ nextId = 1

InitWith(Nics, Disks) ==
    /\ Constructed(Nics, Disks)
    /\ if_stats = HostStats
    /\ default_nic = Some(DEFAULT_NIC)
    /\ net_conns = HostConns

-----------------------------------------------------------------------------
(* MetricsCollector.  Nics and Disks are the readings psutil may return. *)

\* start(): baseline reading, flag, and a new thread running _run
start(Nics) ==
    \E t \in Threads :
        /\ pc[t] = "none"
        /\ \A u \in Threads : u < t => pc[u] # "none"
        /\ \E s \in Nics : prev_net' = Some(get_default_nic_counters(s))
        /\ prev_time' = clock
        /\ running' = TRUE
        /\ pc' = [pc EXCEPT ![t] = "top"]
        /\ UNCHANGED <<clock, tick, disk_tracker, net_tracker, gs, reqpc, store,
                       nextId, dt_by, stopSeen, query, nt_before, if_stats, bench, temp_db, restored, default_nic, net_conns, reply>>

\* stop()
stop ==
    /\ running' = FALSE
    /\ stopSeen' = stopSeen \cup {t \in Threads : pc[t] \notin {"none", "done"}}
    /\ UNCHANGED <<clock, prev_net, prev_time, pc, tick, disk_tracker, net_tracker,
                   gs, reqpc, store, nextId, dt_by, query, nt_before, if_stats, bench, temp_db, restored, default_nic, net_conns, reply>>

\* lifespan, before the yield: init_db() and collector.start()
LifespanStartup(Nics) ==
    /\ phase = "startup"
    /\ default_nic # None
    /\ phase' = "serving"
    /\ start(Nics)

\* lifespan, after the yield: collector.stop()
LifespanShutdown ==
    /\ phase = "serving"
    /\ reqpc = "idle"
    /\ phase' = "shutdown"
    /\ stop

\* start() and stop() called by any other user of the class
ApiStart(Nics) == start(Nics) /\ UNCHANGED phase

ApiStop == stop /\ UNCHANGED phase

UncaughtException == "done"

\* _run: "except Exception" prints the error and falls through to time.sleep
AfterException == "sleep"

\* _collect has ended at thread t: its frame is gone
Ended(t, how, deleted) ==
    [NoTick EXCEPT !.outcome = how, !.inserted = tick[t].inserted, !.deleted = deleted]

\* exception e leaves _collect at thread t
Raise(t, e) ==
    /\ pc' = [pc EXCEPT ![t] = AfterException]
    /\ tick' = [tick EXCEPT ![t] = [Ended(t, "raised", 0) EXCEPT !.error = e]]

\* _run: the loop test, and on entry to _collect the reading of the clock
LoopTop(t) ==
    /\ pc[t] = "top"
    /\ IF running
       THEN /\ pc' = [pc EXCEPT ![t] = "net"]
            /\ tick' = [tick EXCEPT ![t] = [NoTick EXCEPT !.now = clock,
                                                         !.elapsed = clock - prev_time,
                                                         !.outcome = "running"]]
       ELSE /\ pc' = [pc EXCEPT ![t] = "done"]
            /\ UNCHANGED tick
    /\ UNCHANGED <<clock, phase, running, prev_net, prev_time, disk_tracker,
                   net_tracker, gs, reqpc, store, nextId, dt_by, stopSeen, query, nt_before, if_stats, bench, temp_db, restored, default_nic, net_conns, reply>>

\* _collect: gauges, the default interface's counters, the two rates, and the
\* new baseline
CollectNet(t, Nics) ==
    /\ pc[t] = "net"
    /\ \/ /\ prev_net # None
          /\ \E s \in Nics :
                LET net == get_default_nic_counters(s)
                    e == tick[t].elapsed
                IN  /\ tick' = [tick EXCEPT
                           ![t].net = net,
                           ![t].sent_rate =
                               CapRate(RawRate(net.bytes_sent, prev_net[1].bytes_sent, e)),
                           ![t].recv_rate =
                               CapRate(RawRate(net.bytes_recv, prev_net[1].bytes_recv, e))]
                    /\ prev_net' = Some(net)
          /\ prev_time' = tick[t].now
          /\ pc' = [pc EXCEPT ![t] = "disk"]
       \/ \* a psutil read raises
          /\ Raise(t, "psutil.Error")
          /\ UNCHANGED <<prev_net, prev_time>>
    /\ UNCHANGED <<clock, phase, running, disk_tracker, net_tracker, gs, reqpc,
                   store, nextId, dt_by, stopSeen, query, nt_before, if_stats, bench, temp_db, restored, default_nic, net_conns, reply>>

-----------------------------------------------------------------------------
(* DiskSpeedTracker.get_speed, as run by caller c *)

\* now = time.time(); disk = psutil.disk_io_counters(); elapsed = now - _prev_time
GetSpeedRead(c, Disks) ==
    \E d \in Disks :
        gs' = [gs EXCEPT ![c] = [now |-> clock, disk |-> d,
                                 elapsed |-> clock - disk_tracker.prev_time]]

\* the four rates, then self._prev_disk = disk
GetSpeedRates(c) ==
    /\ disk_tracker' = DiskSetRates(disk_tracker, gs[c])
    /\ dt_by' = [dt_by EXCEPT !.disk = c]

\* self._prev_time = now, then the return
GetSpeedReturn(c) ==
    /\ disk_tracker' = [disk_tracker EXCEPT !.prev_time = gs[c].now]
    /\ dt_by' = [dt_by EXCEPT !.time = c]
    /\ gs' = [gs EXCEPT ![c] = NoFrame]

\* _collect: conn_data = _get_connection_counts(), the other reads, and the
\* entry of disk_tracker.get_speed()
CollectDisk1(t, Disks) ==
    /\ pc[t] = "disk"
    /\ \/ /\ tick' = [tick EXCEPT ![t].conn_data = get_connection_counts(net_conns)]
          /\ GetSpeedRead(t, Disks)
          /\ pc' = [pc EXCEPT ![t] = "disk2"]
       \/ \* a psutil read raises
          /\ Raise(t, "psutil.Error")
          /\ UNCHANGED gs
    /\ UNCHANGED <<clock, phase, running, prev_net, prev_time, disk_tracker,
                   net_tracker, reqpc, store, nextId, dt_by, stopSeen, query, nt_before, if_stats, bench, temp_db, restored, default_nic, net_conns, reply>>

CollectDisk2(t) ==
    /\ pc[t] = "disk2"
    /\ GetSpeedRates(t)
    /\ pc' = [pc EXCEPT ![t] = "disk3"]
    /\ UNCHANGED <<clock, phase, running, prev_net, prev_time, tick, net_tracker,
                   gs, reqpc, store, nextId, stopSeen, query, nt_before, if_stats, bench, temp_db, restored, default_nic, net_conns, reply>>

CollectDisk3(t) ==
    /\ pc[t] = "disk3"
    /\ GetSpeedReturn(t)
    /\ tick' = [tick EXCEPT ![t].disk_speed_data = DiskResult(disk_tracker)]
    /\ pc' = [pc EXCEPT ![t] = "insert"]
    /\ UNCHANGED <<clock, phase, running, prev_net, prev_time, net_tracker, reqpc,
                   store, nextId, stopSeen, query, nt_before, if_stats, bench, temp_db, restored, default_nic, net_conns, reply>>

-----------------------------------------------------------------------------
(* _collect: the two transactions *)

GetDbCommitsInFinally(before, after, raised) == after

\* get_db: conn.commit() follows the yield and is skipped when the body
\* raises; conn.close() in the finally clause drops what is not committed
GetDbExit(before, after, raised) == IF raised THEN before ELSE after

\* with get_db(): INSERT INTO metrics ...; commit
Insert(t) ==
    /\ pc[t] = "insert"
    /\ \/ /\ nextId <= MaxId
          /\ store' = GetDbExit(store, store \cup {Sample(nextId, tick[t])}, FALSE)
          /\ nextId' = nextId + 1
          /\ tick' = [tick EXCEPT ![t].inserted = @ + 1]
          /\ pc' = [pc EXCEPT ![t] = "evict"]
       \/ \* sqlite3 raises in execute or in commit
          /\ Raise(t, "sqlite3.Error")
          /\ store' = GetDbExit(store, store \cup {Sample(nextId, tick[t])}, TRUE)
          /\ UNCHANGED nextId
    /\ UNCHANGED <<clock, phase, running, prev_net, prev_time, disk_tracker,
                   net_tracker, gs, reqpc, dt_by, stopSeen, query, nt_before, if_stats, bench, temp_db, restored, default_nic, net_conns, reply>>

\* with get_db(): DELETE FROM metrics WHERE timestamp < cutoff; commit
Evict(t) ==
    /\ pc[t] = "evict"
    /\ \/ LET gone == Expired(store, Cutoff(tick[t].now))
          IN  /\ store' = GetDbExit(store, store \ gone, FALSE)
              /\ tick' = [tick EXCEPT ![t] = Ended(t, "returned", Cardinality(gone))]
              /\ pc' = [pc EXCEPT ![t] = "sleep"]
       \/ \* sqlite3 raises; the INSERT is already committed
          /\ Raise(t, "sqlite3.Error")
          /\ store' = GetDbExit(store, store \ Expired(store, Cutoff(tick[t].now)), TRUE)
    /\ UNCHANGED <<clock, phase, running, prev_net, prev_time, disk_tracker,
                   net_tracker, gs, reqpc, nextId, dt_by, stopSeen, query, nt_before, if_stats, bench, temp_db, restored, default_nic, net_conns, reply>>

\* _run: time.sleep(COLLECT_INTERVAL) returns
Sleep(t) ==
    /\ pc[t] = "sleep"
    /\ pc' = [pc EXCEPT ![t] = "top"]
    /\ UNCHANGED <<clock, phase, running, prev_net, prev_time, tick, disk_tracker,
                   net_tracker, gs, reqpc, store, nextId, dt_by, stopSeen, query, nt_before, if_stats, bench, temp_db, restored, default_nic, net_conns, reply>>

Collector(t, Nics, Disks) ==
    \/ LoopTop(t)
    \/ CollectNet(t, Nics)
    \/ CollectDisk1(t, Disks)
    \/ CollectDisk2(t)
    \/ CollectDisk3(t)
    \/ Insert(t)
    \/ Evict(t)
    \/ Sleep(t)

-----------------------------------------------------------------------------
(* Request handlers, run one at a time by the event loop thread *)

\* current_metrics: gauges and net_tracker.get_speed()
CurrentMetricsNet(Nics) ==
    /\ reqpc = "idle"
    /\ phase = "serving"
    /\ \E s \in Nics : net_tracker' = NetGetSpeed(net_tracker, clock, s)
    /\ nt_before' = Some(net_tracker.prev_all)
    /\ reply' = NoReply
    /\ reqpc' = "disk"
    /\ UNCHANGED <<clock, phase, running, prev_net, prev_time, pc, tick,
                   disk_tracker, gs, store, nextId, dt_by, stopSeen, query,
                   if_stats, bench, temp_db, restored, default_nic, net_conns>>

\* current_metrics: disk_tracker.get_speed()
CurrentMetricsDisk1(Disks) ==
    /\ reqpc = "disk"
    /\ GetSpeedRead(EventLoop, Disks)
    /\ reqpc' = "disk2"
    /\ UNCHANGED <<clock, phase, running, prev_net, prev_time, pc, tick,
                   disk_tracker, net_tracker, store, nextId, dt_by, stopSeen, query, nt_before, if_stats, bench, temp_db, restored, default_nic, net_conns, reply>>

CurrentMetricsDisk2 ==
    /\ reqpc = "disk2"
    /\ GetSpeedRates(EventLoop)
    /\ reqpc' = "disk3"
    /\ UNCHANGED <<clock, phase, running, prev_net, prev_time, pc, tick,
                   net_tracker, gs, store, nextId, stopSeen, query, nt_before, if_stats, bench, temp_db, restored, default_nic, net_conns, reply>>

\* current_metrics: get_speed returns and the response is built
CurrentMetricsDisk3 ==
    /\ reqpc = "disk3"
    /\ GetSpeedReturn(EventLoop)
    /\ reply' = [route |-> "/api/current",
                 connections |-> get_connection_counts(net_conns)]
    /\ reqpc' = "idle"
    /\ UNCHANGED <<clock, phase, running, prev_net, prev_time, pc, tick,
                   net_tracker, store, nextId, stopSeen, query, nt_before, if_stats, bench, temp_db, restored, default_nic, net_conns>>

current_metrics(Nics, Disks) ==
    \/ CurrentMetricsNet(Nics)
    \/ CurrentMetricsDisk1(Disks)
    \/ CurrentMetricsDisk2
    \/ CurrentMetricsDisk3

\* a row of an uploaded database
UploadedRow(id, ts, sent_rate) ==
    [id |-> id, timestamp |-> ts,
     cpu_percent |-> 0, ram_percent |-> 0, ram_used_gb |-> 0, ram_total_gb |-> 0,
     disk_percent |-> 0, disk_used_gb |-> 0, disk_total_gb |-> 0,
     net_sent_bytes |-> 0, net_recv_bytes |-> 0,
     net_sent_rate |-> sent_rate, net_recv_rate |-> 0,
     conn_json |-> JsonDumps(<< >>), extra_json |-> JsonDumps(ZeroSpeed),
     origin |-> "upload"]

\* files a client may post to /api/restore
Uploads ==
    { [name_ok |-> FALSE, is_sqlite |-> TRUE,  rows |-> {}],
      [name_ok |-> TRUE,  is_sqlite |-> FALSE, rows |-> {}],
      [name_ok |-> TRUE,  is_sqlite |-> TRUE,
       rows |-> {UploadedRow(1, 5, MAX_RATE + 1)}] }

\* the AUTOINCREMENT sequence an uploaded database carries
SeqAfter(rows) ==
    IF rows = {} THEN 1
    ELSE 1 + (CHOOSE m \in {r.id : r \in rows} : \A r \in rows : r.id <= m)

OnInvalidKeepsTemp(temp) == temp

\* except: os.remove(temp_db) before the HTTPException
OnInvalid(temp) == None

\* the response of restore_db to one upload
RestoreResponse(u) ==
    IF ~u.name_ok
    THEN [status |-> 400, detail |-> "Invalid file type"]
    ELSE IF u.is_sqlite
         THEN [status |-> 200, detail |-> "Database restored successfully"]
         ELSE [status |-> 400, detail |-> "Corrupted or invalid database"]

\* the handler for one upload: name check, temporary file, SQLite check,
\* then os.remove or shutil.move; the restart thread is left out
RestoreUpload(u) ==
    /\ reqpc = "idle"
    /\ phase = "serving"
    /\ IF ~u.name_ok
       THEN UNCHANGED <<store, nextId, temp_db>>
       ELSE LET written == Some(u)    \* open(temp_db, "wb"), f.write(content)
            IN  IF written[1].is_sqlite   \* connect and SELECT succeed
                THEN /\ store' = written[1].rows
                     /\ nextId' = SeqAfter(written[1].rows)
                     /\ temp_db' = None
                ELSE /\ temp_db' = OnInvalid(written)
                     /\ UNCHANGED <<store, nextId>>
    /\ UNCHANGED <<clock, phase, running, prev_net, prev_time, pc, tick,
                   disk_tracker, net_tracker, gs, reqpc, dt_by, stopSeen, query,
                   nt_before, if_stats, bench, default_nic, net_conns, reply>>

\* restore_db, for any file a client posts
restore_db == \E u \in Uploads : RestoreUpload(u) /\ UNCHANGED restored

\* restore_db, with the request and its response kept as history
RestoreRequest(u) ==
    /\ RestoreUpload(u)
    /\ restored' = [upload |-> Some(u), live |-> store,
                    status |-> RestoreResponse(u).status,
                    detail |-> RestoreResponse(u).detail]

\* everything but bench
BenchFrame ==
    UNCHANGED <<clock, phase, running, prev_net, prev_time, pc, tick,
                disk_tracker, net_tracker, gs, reqpc, store, nextId, dt_by,
                stopSeen, query, nt_before, if_stats, default_nic, net_conns,
                reply, temp_db, restored>>

\* benchmark_cpu up to its await: under _benchmark_lock the request is
\* refused when _benchmark_running is set, else it sets the flag and hands
\* run_benchmark to the executor
benchmark_cpu(r) ==
    /\ phase = "serving"
    /\ bench.run[r] = "none"
    /\ IF bench.running
       THEN bench' = [bench EXCEPT !.run[r] = "refused"]
       ELSE bench' = [bench EXCEPT !.running = TRUE, !.run[r] = "scheduled"]
    /\ BenchFrame

\* run_benchmark in the executor thread: the processes are created, and
\* under the lock _benchmark_processes = processes
RunPublish(r) ==
    /\ bench.run[r] = "scheduled"
    /\ bench' = [bench EXCEPT !.processes = {r}, !.run[r] = "published"]
    /\ BenchFrame

\* run_benchmark: for p in processes: p.start()
RunStart(r) ==
    /\ bench.run[r] = "published"
    /\ bench' = [bench EXCEPT !.run[r] = "alive"]
    /\ BenchFrame

\* _benchmark_worker: the busy loop ends after duration_seconds
WorkersExit(r) ==
    /\ bench.run[r] = "alive"
    /\ bench' = [bench EXCEPT !.run[r] = "exited"]
    /\ BenchFrame

\* run_benchmark: every p.join() returns, the score is summed and returned
RunJoin(r) ==
    /\ bench.run[r] = "exited"
    /\ bench' = [bench EXCEPT !.run[r] = "joined"]
    /\ BenchFrame

\* benchmark_cpu after its await: the finally block, then the response
BenchFinally(r) ==
    /\ bench.run[r] = "joined"
    /\ bench' = [bench EXCEPT !.processes = {}, !.running = FALSE,
                              !.run[r] = "done"]
    /\ BenchFrame

\* stop_benchmark_cpu: under the lock, p.terminate() for the processes of
\* the list that are alive, then the list and the flag are cleared
stop_benchmark_cpu ==
    /\ phase = "serving"
    /\ bench' = [running |-> FALSE, processes |-> {},
                 run |-> [r \in 1..MaxRuns |->
                            IF r \in bench.processes /\ bench.run[r] = "alive"
                            THEN "exited" ELSE bench.run[r]]]
    /\ BenchFrame

AfterSelectSweeps(rows) == rows \ Expired(rows, Cutoff(clock))

\* with get_db(): a SELECT and the commit that follows it leave the table as
\* it is
AfterSelect(rows) == rows

\* get_metrics: the validation of the range parameter; when it passes, one
\* SELECT on a connection of its own, then the response
get_metrics(Ranges) ==
    /\ reqpc = "idle"
    /\ phase = "serving"
    /\ \E q \in Ranges :
          LET rg == RangeParam(q)
              data == MetricsData(rg, clock, store)
          IN  IF QueryPattern(rg)
              THEN query' = [range |-> rg, status |-> 200, now |-> clock,
                             snapshot |-> store, data |-> data,
                             totals |-> MetricsTotals(rg, data)]
              ELSE query' = [range |-> rg, status |-> 422, now |-> clock,
                             snapshot |-> {}, data |-> << >>, totals |-> NoTotals]
    /\ store' = AfterSelect(store)
    /\ UNCHANGED <<clock, phase, running, prev_net, prev_time, pc, tick,
                   disk_tracker, net_tracker, gs, reqpc, nextId, dt_by,
                   stopSeen, nt_before, if_stats, bench, temp_db, restored, default_nic, net_conns, reply>>

\* sorted(stats.keys())
RECURSIVE SortNames(_)
SortNames(names) ==
    IF names = {} THEN << >>
    ELSE LET n == CHOOSE x \in names : \A y \in names : x = y \/ StrLess(x, y)
         IN  <<n>> \o SortNames(names \ {n})

IsListedNonVirtual(iface) == ~IsVirtual(iface)

\* _get_all_nic_info: if iface == 'lo': continue
IsListed(iface) == iface # "lo"

\* _get_all_nic_info: every interface but 'lo', in name order, with its state,
\* its two flags and its AF_INET / AF_INET6 addresses
get_all_nic_info(stats) ==
    LET listed == SelectSeq(SortNames({stats[i].name : i \in DOMAIN stats}),
                            IsListed)
        st(n) == stats[CHOOSE i \in DOMAIN stats : stats[i].name = n]
    IN  [i \in 1..Len(listed) |->
            [name |-> listed[i],
             is_up |-> st(listed[i]).isup,
             is_default |-> listed[i] = default_nic[1],
             is_virtual |-> IsVirtual(listed[i]),
             addrs |-> st(listed[i]).families \cap {"AF_INET", "AF_INET6"}]]

\* list_interfaces
list_interfaces ==
    /\ reqpc = "idle"
    /\ phase = "serving"
    /\ reply' = [route |-> "/api/interfaces", default |-> default_nic[1],
                 interfaces |-> get_all_nic_info(if_stats)]
    /\ UNCHANGED <<clock, phase, running, prev_net, prev_time, pc, tick,
                   disk_tracker, net_tracker, gs, reqpc, store, nextId, dt_by,
                   stopSeen, query, nt_before, if_stats, bench, temp_db, restored, default_nic, net_conns>>

\* import of the module: DEFAULT_NIC = _detect_default_nic()
ImportDefaultNic ==
    /\ default_nic = None
    /\ default_nic' = Some(detect_default_nic(if_stats))
    /\ UNCHANGED <<clock, phase, running, prev_net, prev_time, pc, tick,
                   disk_tracker, net_tracker, gs, reqpc, store, nextId, dt_by,
                   stopSeen, query, nt_before, if_stats, bench, temp_db, restored, net_conns, reply>>

-----------------------------------------------------------------------------
(* The wall clock *)

ClockMoves(Values) ==
    /\ \E v \in Values : v > clock /\ clock' = v
    /\ UNCHANGED <<phase, running, prev_net, prev_time, pc, tick, disk_tracker,
                   net_tracker, gs, reqpc, store, nextId, dt_by, stopSeen, query, nt_before, if_stats, bench, temp_db, restored, default_nic, net_conns, reply>>

\* the wall clock is set, forward or back
ClockSteps(Values) ==
    /\ \E v \in Values : v # clock /\ clock' = v
    /\ UNCHANGED <<phase, running, prev_net, prev_time, pc, tick, disk_tracker,
                   net_tracker, gs, reqpc, store, nextId, dt_by, stopSeen, query,
                   nt_before, if_stats, bench, temp_db, restored, default_nic, net_conns, reply>>

-----------------------------------------------------------------------------
(* The server as uvicorn runs it: lifespan starts the collector once and     *)
(* stops it once; snapshot reads and database restores arrive meanwhile.     *)

Init == InitWith(OneNicSnapshot, OneDiskReading)

Next ==
    \/ LifespanStartup(NicSnapshots)
    \/ LifespanShutdown
    \/ \E t \in Threads : Collector(t, NicSnapshots, OneDiskReading)
    \/ current_metrics(OneNicSnapshot, OneDiskReading)
    \/ restore_db
    \/ ClockMoves(ClockValues)

Spec == Init /\ [][Next]_vars

(* The same server on a quiet host, with the scheduling of the collector     *)
(* thread: the operating system runs every live thread again and again.      *)

LiveNext ==
    \/ LifespanStartup(OneNicSnapshot)
    \/ LifespanShutdown
    \/ \E t \in Threads : Collector(t, OneNicSnapshot, OneDiskReading)
    \/ current_metrics(OneNicSnapshot, OneDiskReading)
    \/ restore_db
    \/ ClockMoves(ShortClock)

LiveSpec ==
    /\ Init
    /\ [][LiveNext]_vars
    /\ \A t \in Threads : WF_vars(Collector(t, OneNicSnapshot, OneDiskReading))

(* The benchmark endpoints: MaxRuns requests of /api/benchmark/cpu, each    *)
(* with its executor thread and its worker processes, and any number of     *)
(* requests of /api/benchmark/cpu/stop.                                      *)

BenchNext ==
    \/ LifespanStartup(OneNicSnapshot)
    \/ LifespanShutdown
    \/ \E t \in Threads : Collector(t, OneNicSnapshot, OneDiskReading)
    \/ \E r \in 1..MaxRuns :
          \/ benchmark_cpu(r)
          \/ RunPublish(r)
          \/ RunStart(r)
          \/ WorkersExit(r)
          \/ RunJoin(r)
          \/ BenchFinally(r)
    \/ stop_benchmark_cpu

BenchSpec == Init /\ [][BenchNext]_vars

(* The restore endpoint beside the collector, seen by a client that keeps   *)
(* the response to its last upload.                                          *)

RestoreNext ==
    \/ LifespanStartup(OneNicSnapshot)
    \/ LifespanShutdown
    \/ \E t \in Threads : Collector(t, OneNicSnapshot, OneDiskReading)
    \/ \E u \in Uploads : RestoreRequest(u)
    \/ ClockMoves(ShortClock)

RestoreSpec == Init /\ [][RestoreNext]_vars

(* MetricsCollector under any sequence of start() and stop() calls *)

ApiNext ==
    \/ ApiStart(OneNicSnapshot)
    \/ ApiStop
    \/ \E t \in Threads : Collector(t, OneNicSnapshot, OneDiskReading)
    \/ ClockMoves(ShortClock)

ApiSpec == Init /\ [][ApiNext]_vars

(* Snapshot reads alone, with interface counters that grow, fall, appear    *)
(* and disappear, disk counters that change or are not available, and a     *)
(* wall clock that may be set back.  The collector thread has been started  *)
(* and is not scheduled: it shares no network tracker with the reads.       *)

ReadsNext ==
    \/ LifespanStartup(OneNicSnapshot)
    \/ LifespanShutdown
    \/ current_metrics(TrackerNics, DiskReadings)
    \/ ClockSteps(ShortClock)

ReadsSpec == InitWith(TrackerNics, DiskReadings) /\ [][ReadsNext]_vars

(* The collector and the snapshot reads under a wall clock that may be set  *)
(* back                                                                     *)

ElapsedNext ==
    \/ LifespanStartup(TwoNicSnapshots)
    \/ LifespanShutdown
    \/ \E t \in Threads : Collector(t, OneNicSnapshot, OneDiskReading)
    \/ current_metrics(TwoNicSnapshots, OneDiskReading)
    \/ ClockSteps(ShortClock)

ElapsedSpec == Init /\ [][ElapsedNext]_vars

(* The server with range queries arriving while the collector runs *)

QueryNext ==
    \/ LifespanStartup(OneNicSnapshot)
    \/ LifespanShutdown
    \/ \E t \in Threads : Collector(t, OneNicSnapshot, OneDiskReading)
    \/ get_metrics(RangeKeys)
    \/ ClockMoves(ClockValues)

QuerySpec == Init /\ [][QueryNext]_vars

(* The server with its three read handlers arriving while one collector     *)
(* thread runs and a retention period passes                                 *)

ServeNext ==
    \/ LifespanStartup(OneNicSnapshot)
    \/ LifespanShutdown
    \/ \E t \in Threads : Collector(t, OneNicSnapshot, OneDiskReading)
    \/ get_metrics({"1m"})
    \/ current_metrics(OneNicSnapshot, OneDiskReading)
    \/ list_interfaces
    \/ ClockMoves(ClockValues)

ServeSpec == Init /\ [][ServeNext]_vars

(* Range queries over a database that earlier runs of the server have       *)
(* filled: every range key, keys outside the table, and no key at all       *)

\* a row as an earlier run stored it
StoredRow(id, ts, cpu, ram_total, sent_rate) ==
    [id |-> id, timestamp |-> ts,
     cpu_percent |-> cpu, ram_percent |-> cpu + 1, ram_used_gb |-> ram_total \div 3,
     ram_total_gb |-> ram_total,
     disk_percent |-> 1000 - cpu, disk_used_gb |-> ram_total + 7,
     disk_total_gb |-> 2 * ram_total,
     net_sent_bytes |-> 0, net_recv_bytes |-> 0,
     net_sent_rate |-> sent_rate, net_recv_rate |-> sent_rate \div 2,
     conn_json |-> JsonDumps("Total" :> [tcp |-> id, udp |-> 0]),
     extra_json |-> JsonDumps([ZeroSpeed EXCEPT !.read_bps = id]),
     origin |-> "stored"]

\* five rows: two in one 30 s bucket, a third with the timestamp of the
\* second, rowids that do not follow the timestamps, and one row 4900 s later
StoredRows ==
    { StoredRow(3, 10, 100, 400, 1000000),
      StoredRow(2, 20, 205, 800, 3000001),
      StoredRow(1, 45, 300, 400, MAX_RATE),
      StoredRow(4, 4945, 990, 400, 7),
      StoredRow(5, 20, 0, 1600, 0) }

Databases == SUBSET StoredRows

\* instants of the queries: 100 s after the last row; 7200 s after the row at
\* 45; 21600 s after the middle of the first bucket
QueryTimes == {5045, 7245, 21615}

RequestRanges == RangeKeys \cup {"5m", "1H", "", NoRangeParam}

RangeInit ==
    /\ Objects(OneNicSnapshot, OneDiskReading)
    /\ clock \in QueryTimes
    /\ store \in Databases
    /\ nextId = SeqAfter(store)
    /\ if_stats = HostStats
    /\ default_nic = Some(DEFAULT_NIC)
    /\ net_conns = HostConns

RangeNext ==
    \/ LifespanStartup(OneNicSnapshot)
    \/ LifespanShutdown
    \/ get_metrics(RequestRanges)
    \/ ClockMoves(QueryTimes)

RangeSpec == RangeInit /\ [][RangeNext]_vars

(* The collector and the snapshot reads on a host whose connection table    *)
(* may not be read                                                           *)

ConnInit ==
    /\ Constructed(OneNicSnapshot, OneDiskReading)
    /\ if_stats = HostStats
    /\ default_nic = Some(DEFAULT_NIC)
    /\ net_conns \in ConnTables

ConnNext ==
    \/ LifespanStartup(OneNicSnapshot)
    \/ LifespanShutdown
    \/ \E t \in Threads : Collector(t, OneNicSnapshot, OneDiskReading)
    \/ current_metrics(OneNicSnapshot, OneDiskReading)
    \/ ClockMoves(ShortClock)

ConnSpec == ConnInit /\ [][ConnNext]_vars

(* The collector on a host whose default interface comes and goes           *)

AbsentNext ==
    \/ LifespanStartup(AbsentNics)
    \/ LifespanShutdown
    \/ \E t \in Threads : Collector(t, AbsentNics, OneDiskReading)
    \/ ClockMoves(ShortClock)

AbsentSpec == Init /\ [][AbsentNext]_vars

(* Import of the module on any host: the interfaces psutil lists, in any    *)
(* order, and the choice of DEFAULT_NIC                                      *)

ImportInit ==
    /\ Constructed(OneNicSnapshot, OneDiskReading)
    /\ if_stats \in IfaceSnapshots
    /\ default_nic = None
    /\ net_conns = HostConns

ImportNext ==
    \/ ImportDefaultNic
    \/ LifespanStartup(OneNicSnapshot)
    \/ list_interfaces

ImportSpec == ImportInit /\ [][ImportNext]_vars

-----------------------------------------------------------------------------
(* Properties *)

\* thread t is inside _collect
InTick(t) == pc[t] \in {"net", "disk", "disk2", "disk3", "insert", "evict"}

\* the step in which _collect's INSERT commits at thread t
Inserts(t) == pc[t] = "insert" /\ pc'[t] = "evict"

\* the step in which _collect's DELETE commits at thread t
Evicts(t) == pc[t] = "evict" /\ pc'[t] = "sleep" /\ tick'[t].outcome = "returned"

\* C1: every Sample a collector tick has stored has both byte rates within
\* [0, 50,000,000], whatever the elapsed time, the counters and the failures
\* of earlier ticks were.
C1_RatesWithinCap ==
    \A r \in store :
        r.origin = "collector" =>
            /\ 0 <= r.net_sent_rate /\ r.net_sent_rate <= 50000000
            /\ 0 <= r.net_recv_rate /\ r.net_recv_rate <= 50000000

\* a stored Sample whose sent rate is exactly the cap and whose receive rate,
\* 51,999,800 before the cap, was stored as 0
C1_Witness ==
    \E r \in store :
        /\ r.origin = "collector"
        /\ r.net_sent_rate = 50000000
        /\ r.net_recv_bytes = 260000000
        /\ r.net_recv_rate = 0

C2_Expected(cur, prev, elapsed) ==
    LET v == Round(cur - prev, elapsed)
    IN  IF 0 <= v /\ v <= 50000000 THEN v ELSE 0

\* C2: in a tick with elapsed > 0 the rate computed for each direction is
\* round((current - previous) / elapsed) when that lies in [0, MAX_RATE] and
\* 0 otherwise, and that is the rate the tick stores.
C2_RateOrZero ==
    [][\A t \in Threads :
          /\ (pc[t] = "net" /\ pc'[t] = "disk" /\ tick[t].elapsed > 0) =>
                /\ tick'[t].sent_rate =
                      C2_Expected(tick'[t].net.bytes_sent, prev_net[1].bytes_sent,
                                  tick[t].elapsed)
                /\ tick'[t].recv_rate =
                      C2_Expected(tick'[t].net.bytes_recv, prev_net[1].bytes_recv,
                                  tick[t].elapsed)
          /\ Inserts(t) =>
                \E r \in store' \ store :
                    /\ r.net_sent_rate = tick[t].sent_rate
                    /\ r.net_recv_rate = tick[t].recv_rate]_vars

\* a tick with elapsed > 0 has stored the in-range sent rate and 0 for the
\* over-ceiling receive rate
C2_Witness ==
    \E t \in Threads :
        /\ pc[t] = "evict"
        /\ tick[t].elapsed > 0
        /\ tick[t].sent_rate = 50000000
        /\ tick[t].recv_rate = 0
        /\ \E r \in store : r.timestamp = tick[t].now /\ r.net_sent_rate = 50000000

\* C3: when a tick with tick time now completes its eviction step, no Sample
\* in the store has timestamp < now - 31 * 86400.
C3_NoExpiredAfterEvict ==
    [][\A t \in Threads :
          Evicts(t) => \A r \in store' : r.timestamp >= tick[t].now - 31 * 86400]_vars

\* a tick has returned and its DELETE removed a row
C3_Witness ==
    \E t \in Threads :
        pc[t] = "sleep" /\ tick[t].outcome = "returned" /\ tick[t].deleted > 0

\* C4 as claimed: a stored Sample stays in the store unchanged unless a
\* collector tick evicts it, and then its timestamp is below the cutoff.
C4_OnlyEviction ==
    [][\A r \in store :
          \/ r \in store'
          \/ \E t \in Threads : Evicts(t) /\ r.timestamp < tick[t].now - 31 * 86400]_vars

\* C4: a stored Sample stays in the store unchanged unless a collector tick
\* evicts it, and then its timestamp is below the cutoff, or a database
\* restore replaces the store.
C4_OnlyEvictionOrRestore ==
    [][\A r \in store :
          \/ r \in store'
          \/ \E t \in Threads : Evicts(t) /\ r.timestamp < tick[t].now - 31 * 86400
          \/ restore_db]_vars

\* a restored row with timestamp = cutoff is still stored after the eviction
\* of a tick that stored its own Sample
C4_Witness ==
    \E t \in Threads :
        /\ pc[t] = "sleep" /\ tick[t].outcome = "returned"
        /\ \E r \in store : r.origin = "upload" /\ r.timestamp = 5
        /\ \E r \in store :
              r.origin = "collector" /\ r.timestamp = 31 * 86400 + 5

\* C5: a call of _collect that returns has inserted exactly one row, and the
\* row's timestamp is the time read on entry.
C5_OneSamplePerTick ==
    /\ [](\A t \in Threads : tick[t].outcome = "returned" => tick[t].inserted = 1)
    /\ [][\A t \in Threads :
            Inserts(t) =>
                \E r \in store' :
                    /\ r \notin store
                    /\ store' = store \cup {r}
                    /\ r.timestamp = tick[t].now]_vars

\* two ticks have returned and the store holds their two Samples
C5_Witness ==
    \E t \in Threads :
        /\ pc[t] = "sleep" /\ tick[t].outcome = "returned" /\ tick[t].inserted = 1
        /\ Cardinality({r \in store : r.origin = "collector"}) = 2

\* C6: after every call of _collect, also one that raised, the thread starts
\* another unless stop() has been called, and the loop ends only then.
C6_LoopSurvives ==
    /\ \A t \in Threads : [](pc[t] = "sleep" => <>(pc[t] = "net" \/ ~running))
    /\ [][\A t \in Threads : (pc[t] # "done" /\ pc'[t] = "done") => ~running]_vars

\* a tick has raised, the thread sleeps and the collector is still running
C6_Witness ==
    \E t \in Threads : pc[t] = "sleep" /\ tick[t].outcome = "raised" /\ running

\* C7: a thread that was alive when stop() was called starts no new tick.
C7_NoTickAfterStop ==
    [][\A t \in stopSeen : ~(pc[t] = "top" /\ pc'[t] = "net")]_vars

\* C8: at most one thread is inside _collect.
C8_OneTickAtATime ==
    Cardinality({t \in Threads : InTick(t)}) <= 1

\* C9: the disk tracker changes only in a step of a collector tick.
C9_TrackerOnlyInTick ==
    [][disk_tracker' # disk_tracker =>
          \E t \in Threads : pc[t] \in {"disk2", "disk3"} /\ pc'[t] # pc[t]]_vars

\* C10: whenever no call of get_speed is between its two assignments,
\* _prev_disk and _prev_time of the disk tracker were written by one call.
C10_PairFromOneReading ==
    (reqpc # "disk3" /\ \A t \in Threads : pc[t] # "disk3") =>
        dt_by.disk = dt_by.time

\* thread t has committed its INSERT and not yet its DELETE, and the DELETE
\* has rows to remove
PartWritten(t) == pc[t] = "evict" /\ Expired(store, Cutoff(tick[t].now)) # {}

\* C11: the SELECT of a range query never runs on the store as it is between
\* the append and the eviction of a tick, with the new Sample stored and the
\* expired Samples still there.
C11_QueryNeverBetweenAppendAndEvict ==
    [][(\E rg \in RangeKeys : get_metrics({rg})) =>
          \A t \in Threads : ~PartWritten(t)]_vars

\* the step in which current_metrics calls net_tracker.get_speed()
NetCall == reqpc = "idle" /\ reqpc' = "disk"

\* the four rates of one entry of the result are 0
ZeroRates(e) == e.sent_bps = 0 /\ e.recv_bps = 0 /\ e.sent_pps = 0 /\ e.recv_pps = 0

\* C12: no rate in the result of NetworkSpeedTracker.get_speed is negative.
C12_NoNegativeRate ==
    \A nic \in DOMAIN net_tracker.speeds :
        LET e == net_tracker.speeds[nic]
        IN  e.sent_bps >= 0 /\ e.recv_bps >= 0 /\ e.sent_pps >= 0 /\ e.recv_pps >= 0

C14_ZeroElapsed ==
    [][/\ \A t \in Threads :
             (pc[t] = "net" /\ pc'[t] = "disk" /\ tick[t].elapsed <= 0) =>
                 /\ tick'[t].sent_rate = 0
                 /\ tick'[t].recv_rate = 0
                 /\ prev_net' = Some(tick'[t].net)
                 /\ prev_time' = tick[t].now
       /\ (NetCall /\ clock - net_tracker.prev_time <= 0) =>
             /\ net_tracker'.prev_time = clock
             /\ DOMAIN net_tracker'.speeds = DOMAIN net_tracker'.prev_all
             /\ \A nic \in DOMAIN net_tracker'.speeds :
                   /\ ZeroRates(net_tracker'.speeds[nic])
                   /\ net_tracker'.speeds[nic].sent_total =
                         net_tracker'.prev_all[nic].bytes_sent
                   /\ net_tracker'.speeds[nic].recv_total =
                         net_tracker'.prev_all[nic].bytes_recv]_vars

\* a tick that read a clock set back has computed rate 0 and moved its
\* baseline, and a get_speed call has returned 0 for counters that changed
C14_Witness ==
    /\ \E t \in Threads :
          /\ pc[t] = "disk"
          /\ tick[t].elapsed < 0
          /\ tick[t].sent_rate = 0
          /\ prev_net = Some(tick[t].net)
          /\ prev_time = tick[t].now
    /\ nt_before # None
    /\ nt_before[1]["eth0"].bytes_sent # net_tracker.prev_all["eth0"].bytes_sent
    /\ ZeroRates(net_tracker.speeds["eth0"])

\* the step in which caller c of DiskSpeedTracker.get_speed passes the branch
\* that computes the rates
RatesStep(c) ==
    IF c = EventLoop THEN reqpc = "disk2" /\ reqpc' = "disk3"
    ELSE pc[c] = "disk2" /\ pc'[c] = "disk3"

\* C15: a call of DiskSpeedTracker.get_speed with elapsed <= 0 or without
\* previous disk counters leaves all four rates 0.
C15_NoRateCarriedOver ==
    [][\A c \in Callers :
          (RatesStep(c) /\ (gs[c].elapsed <= 0 \/ disk_tracker.prev_disk = None)) =>
              DiskResult(disk_tracker') = ZeroSpeed]_vars

\* C16: NetworkSpeedTracker.get_speed returns rate 0 four times for an
\* interface without an entry in the previous snapshot, and the snapshot it
\* stores is the reading the result was built from.
C16_NewInterfaceStartsAtZero ==
    [][NetCall =>
          /\ \A nic \in DOMAIN net_tracker'.prev_all :
                nic \notin DOMAIN net_tracker.prev_all =>
                    ZeroRates(net_tracker'.speeds[nic])
          /\ net_tracker'.prev_all \in TrackerNics
          /\ DOMAIN net_tracker'.speeds = DOMAIN net_tracker'.prev_all
          /\ \A nic \in DOMAIN net_tracker'.speeds :
                /\ net_tracker'.speeds[nic].sent_total =
                      net_tracker'.prev_all[nic].bytes_sent
                /\ net_tracker'.speeds[nic].recv_total =
                      net_tracker'.prev_all[nic].bytes_recv]_vars

\* docker0 was not in the previous snapshot; after a call with elapsed > 0 its
\* rates are 0 and its counters are stored
C16_Witness ==
    /\ nt_before # None
    /\ "docker0" \notin DOMAIN nt_before[1]
    /\ net_tracker.prev_all = NicGone
    /\ net_tracker.prev_time = 5
    /\ ZeroRates(net_tracker.speeds["docker0"])

\* C17: a tick in which a read of a metric source raises does not end
\* without its Sample stored.
C17_SourceFailureKeepsSample ==
    [][\A t \in Threads :
          (pc[t] \in {"net", "disk"} /\ pc'[t] \notin {"net", "disk", "disk2"}) =>
              tick'[t].inserted = 1]_vars

\* the step in which the INSERT of thread t fails
InsertFails(t) == pc[t] = "insert" /\ pc'[t] \notin {"insert", "evict"}

Reorderings(stats) ==
    LET n == Len(stats)
        perms == {f \in [1..n -> 1..n] : \A i, j \in 1..n : i # j => f[i] # f[j]}
    IN  {[i \in 1..n |-> stats[f[i]]] : f \in perms}

\* C19: the interface chosen as DEFAULT_NIC is the one chosen for every other
\* enumeration order of the same interfaces.
C19_OrderIndependent ==
    default_nic # None =>
        \A other \in Reorderings(if_stats) :
            detect_default_nic(other) = default_nic[1]

\* the interfaces of stats that are up and whose name is not virtual
UpNonVirtual(stats) ==
    {i \in 1..Len(stats) : stats[i].isup /\ ~IsVirtual(stats[i].name)}

\* C20: when some interface is up and not virtual, DEFAULT_NIC is such an
\* interface, and no other such interface has an IPv4 address where it has
\* none, or the same and a smaller name.
C20_FirstUpNonVirtual ==
    (default_nic # None /\ UpNonVirtual(if_stats) # {}) =>
        \E i \in UpNonVirtual(if_stats) :
            /\ if_stats[i].name = default_nic[1]
            /\ \A j \in UpNonVirtual(if_stats) :
                  LET mine == "AF_INET" \in if_stats[i].families
                      theirs == "AF_INET" \in if_stats[j].families
                  IN  /\ theirs => mine
                      /\ (theirs = mine /\ j # i) =>
                            StrLess(if_stats[i].name, if_stats[j].name)

\* eth0 without IPv4 is listed first, ens3 with IPv4 and docker0 follow:
\* ens3 is chosen
C20_Witness ==
    /\ default_nic = Some("ens3")
    /\ Len(if_stats) = 3
    /\ if_stats[1] = Iface("eth0", TRUE, {"AF_PACKET"})
    /\ if_stats[2] = Iface("docker0", TRUE, {"AF_INET", "AF_PACKET"})
    /\ if_stats[3] = Iface("ens3", TRUE, {"AF_INET", "AF_PACKET"})

\* the positions of the interfaces that are not the loopback
NonLoopback(stats) == {i \in 1..Len(stats) : stats[i].name # "lo"}

\* C21: when no interface is up and not virtual, DEFAULT_NIC is the first
\* interface of the snapshot that is not the loopback, and it is the loopback
\* only when the snapshot has no other interface.
C21_FallbackFirstNonLoopback ==
    (default_nic # None /\ UpNonVirtual(if_stats) = {}) =>
        IF NonLoopback(if_stats) # {}
        THEN \E i \in NonLoopback(if_stats) :
                /\ default_nic[1] = if_stats[i].name
                /\ \A j \in NonLoopback(if_stats) : i <= j
        ELSE default_nic[1] = "lo"

\* lo is listed first, then eth0, which is down, then docker0: no interface
\* is up and not virtual, and eth0 is chosen
C21_Witness ==
    /\ default_nic = Some("eth0")
    /\ Len(if_stats) = 3
    /\ if_stats[1].name = "lo"
    /\ if_stats[2] = Iface("eth0", FALSE, {"AF_PACKET"})
    /\ if_stats[3].name = "docker0"

\* the last range query was answered, with the policy (window, bucket)
Answered(window, bucket) ==
    /\ query.status = 200
    /\ query.range \in DOMAIN RANGE_MAP
    /\ RANGE_MAP[query.range] = <<window, bucket>>

\* the Samples the query's SELECT saw whose timestamp is not before now - window
QueryWindow(window) == {r \in query.snapshot : r.timestamp >= query.now - window}

\* point p shows Sample r as it is stored
ShowsSample(p, r) ==
    /\ p.t = r.timestamp
    /\ p.cpu = r.cpu_percent /\ p.ram = r.ram_percent
    /\ p.ram_used = r.ram_used_gb /\ p.ram_total = r.ram_total_gb
    /\ p.disk = r.disk_percent /\ p.disk_used = r.disk_used_gb
    /\ p.disk_total = r.disk_total_gb
    /\ p.net_sent = r.net_sent_rate /\ p.net_recv = r.net_recv_rate
    /\ <<p.conns>> = r.conn_json /\ <<p.extra>> = r.extra_json

\* C22: a query for a raw range returns one point for each Sample whose
\* timestamp is at or after now - window and no other point, in ascending
\* order of timestamp.
C22_RawRangeExact ==
    \A key \in {"1h", "2h"} :
        Answered(RANGE_MAP[key][1], None) /\ query.range = key =>
            LET inwin == QueryWindow(RANGE_MAP[key][1])
                n == Len(query.data)
            IN  /\ n = Cardinality(inwin)
                /\ \A r \in inwin : \E i \in 1..n : ShowsSample(query.data[i], r)
                /\ \A i \in 1..n : \E r \in inwin : ShowsSample(query.data[i], r)
                /\ \A i, j \in 1..n : i < j => query.data[i].t <= query.data[j].t

\* window 3600 at now = 5045: of the Samples at now - 100 and now - 5000 the
\* query returns the first alone
C22_Witness ==
    /\ query.range = "1h" /\ query.status = 200 /\ query.now = 5045
    /\ {r.timestamp : r \in query.snapshot} = {4945, 45}
    /\ Len(query.data) = 1
    /\ query.data[1].t = 4945

\* the range keys of RANGE_MAP that aggregate
BucketedKeys == {key \in DOMAIN RANGE_MAP : RANGE_MAP[key][2] # None}

\* C23: a query for a bucketed range returns one point for each distinct
\* floor(timestamp / bucket) among the Samples in the window, its t is that
\* floor times the bucket, the points are in strictly ascending order of t,
\* and no point stands for a bucket without a Sample.
C23_OnePointPerBucket ==
    \A key \in BucketedKeys :
        Answered(RANGE_MAP[key][1], RANGE_MAP[key][2]) /\ query.range = key =>
            LET inwin == QueryWindow(RANGE_MAP[key][1])
                bucket == RANGE_MAP[key][2][1]
                n == Len(query.data)
                Holds(t, r) == t <= r.timestamp /\ r.timestamp < t + bucket
            IN  /\ \A i \in 1..n :
                      /\ query.data[i].t % bucket = 0
                      /\ \E r \in inwin : Holds(query.data[i].t, r)
                /\ \A r \in inwin : \E i \in 1..n : Holds(query.data[i].t, r)
                /\ \A i, j \in 1..n : i < j => query.data[i].t < query.data[j].t

\* bucket 30: Samples at 10, 20, 45 and 4945 give the three points 0, 30 and
\* 4920 and nothing between them
C23_Witness ==
    /\ query.range = "6h" /\ query.status = 200
    /\ {r.timestamp : r \in query.snapshot} = {10, 20, 45, 4945}
    /\ Cardinality(query.snapshot) = 4
    /\ [i \in 1..Len(query.data) |-> query.data[i].t] = <<0, 30, 4920>>

\* v is the quotient sum / n rounded to the nearest unit
RoundedMean(v, sum, n) == 2 * Abs((v * n) - sum) <= n

\* C24: every numeric field of a bucketed point is the mean, up to the
\* rounding of the output, of that field over the Samples of the bucket that
\* are inside the window, and no others; ram_total and disk_total are the
\* maximum over the same Samples.
C24_BucketMeans ==
    \A key \in BucketedKeys :
        Answered(RANGE_MAP[key][1], RANGE_MAP[key][2]) /\ query.range = key =>
            LET inwin == QueryWindow(RANGE_MAP[key][1])
                bucket == RANGE_MAP[key][2][1]
            IN  \A i \in 1..Len(query.data) :
                    LET p == query.data[i]
                        g == {r \in inwin : p.t <= r.timestamp /\ r.timestamp < p.t + bucket}
                        n == Cardinality(g)
                    IN  /\ n > 0
                        /\ RoundedMean(p.cpu, SumOf(g, "cpu_percent"), n)
                        /\ RoundedMean(p.ram, SumOf(g, "ram_percent"), n)
                        /\ RoundedMean(p.disk, SumOf(g, "disk_percent"), n)
                        /\ RoundedMean(p.ram_used, SumOf(g, "ram_used_gb"), n)
                        /\ RoundedMean(p.disk_used, SumOf(g, "disk_used_gb"), n)
                        /\ RoundedMean(p.net_sent, SumOf(g, "net_sent_rate"), n)
                        /\ RoundedMean(p.net_recv, SumOf(g, "net_recv_rate"), n)
                        /\ \E r \in g : p.ram_total = r.ram_total_gb
                        /\ \A r \in g : r.ram_total_gb <= p.ram_total
                        /\ \E r \in g : p.disk_total = r.disk_total_gb
                        /\ \A r \in g : r.disk_total_gb <= p.disk_total

\* bucket 30 and Samples at 10, 20 and 45: two points; the first has the mean
\* of cpu 10.0 and 20.5, of 1,000,000 and 3,000,001 bytes per second, and the
\* larger ram_total; the second is the third Sample
C24_Witness ==
    /\ query.range = "6h" /\ query.status = 200
    /\ {<<r.timestamp, r.cpu_percent>> : r \in query.snapshot}
           = {<<10, 100>>, <<20, 205>>, <<45, 300>>}
    /\ Len(query.data) = 2
    /\ query.data[1].t = 0 /\ query.data[1].cpu = 152
    /\ query.data[1].net_sent = 2000000 /\ query.data[1].ram_total = 800
    /\ query.data[2].t = 30 /\ query.data[2].cpu = 300

\* C25: the conns and the extra of a bucketed point are the two payloads of
\* one Sample, and that Sample has the greatest timestamp among the Samples
\* of the bucket.
C25_PayloadOfLatest ==
    \A key \in BucketedKeys :
        Answered(RANGE_MAP[key][1], RANGE_MAP[key][2]) /\ query.range = key =>
            LET inwin == QueryWindow(RANGE_MAP[key][1])
                bucket == RANGE_MAP[key][2][1]
            IN  \A i \in 1..Len(query.data) :
                    LET p == query.data[i]
                        g == {r \in inwin : p.t <= r.timestamp /\ r.timestamp < p.t + bucket}
                    IN  \E r \in g :
                            /\ \A o \in g : o.timestamp <= r.timestamp
                            /\ <<p.conns>> = r.conn_json
                            /\ <<p.extra>> = r.extra_json

\* the Sample at 10 has rowid 3 and the Sample at 20 has rowid 2: the point
\* of their bucket carries the payloads of the Sample at 20
C25_Witness ==
    /\ query.range = "6h" /\ query.status = 200
    /\ {<<r.timestamp, r.id>> : r \in query.snapshot} = {<<10, 3>>, <<20, 2>>}
    /\ Len(query.data) = 1
    /\ query.data[1].conns["Total"].tcp = 2
    /\ query.data[1].extra.read_bps = 2

\* C26: the totals of a range query are the sum of the points' net_sent
\* (net_recv) times the interval, divided by 2^30 and rounded to two
\* decimals, where the interval is the bucket size of a bucketed range and
\* 30 seconds of a raw range; an empty result has totals 0.
C26_Totals ==
    \A key \in DOMAIN RANGE_MAP :
        (query.status = 200 /\ query.range = key) =>
            LET interval == IF RANGE_MAP[key][2] = None THEN 30 ELSE RANGE_MAP[key][2][1]
                sent == SumPoints(query.data, "net_sent")
                recv == SumPoints(query.data, "net_recv")
            IN  /\ query.totals.sent_gb = ToGb(sent, interval)
                /\ query.totals.recv_gb = ToGb(recv, interval)
                /\ query.data = << >> =>
                      query.totals.sent_gb = 0 /\ query.totals.recv_gb = 0

\* range 1m, bucket 3600: one point with net_sent 18,000,000 and net_recv
\* 9,000,000; the totals are 60.35 and 30.17 gigabytes
C26_Witness ==
    /\ query.range = "1m" /\ query.status = 200
    /\ Len(query.data) = 1
    /\ query.data[1].net_sent = 18000000
    /\ query.data[1].net_recv = 9000000
    /\ query.totals = [sent_gb |-> 6035, recv_gb |-> 3017]

\* the policy table: range key -> (window, bucket), <<>> for raw
PolicyTable ==
    [key \in {"1h", "2h", "6h", "12h", "1d", "2d", "1w", "1m"} |->
        CASE key = "1h"  -> <<3600, << >> >>
          [] key = "2h"  -> <<7200, << >> >>
          [] key = "6h"  -> <<21600, <<30>> >>
          [] key = "12h" -> <<43200, <<60>> >>
          [] key = "1d"  -> <<86400, <<120>> >>
          [] key = "2d"  -> <<172800, <<300>> >>
          [] key = "1w"  -> <<604800, <<900>> >>
          [] key = "1m"  -> <<2592000, <<3600>> >>]

\* the number of points the policy (window, bucket) yields over rows at now
PointCount(policy, rows, now) ==
    LET inwin == {r \in rows : r.timestamp >= now - policy[1]}
    IN  IF policy[2] = << >> THEN Cardinality(inwin)
        ELSE Cardinality({r.timestamp \div policy[2][1] : r \in inwin})

\* the response to the request is the one policy yields
AnsweredBy(policy) ==
    /\ query'.status = 200
    /\ Len(query'.data) = PointCount(policy, store, clock)

\* the range values of the requests that are no key of the table
OtherKeys == (RequestRanges \ DOMAIN PolicyTable) \ {NoRangeParam}

\* C27 as stated: a request with one of the eight keys is answered with the
\* key's pair of the policy table, and a request with any other key is
\* answered with the 1h policy.
C27_OtherKeyFallsBack ==
    [][\A q \in RequestRanges \ {NoRangeParam} :
          get_metrics({q}) =>
              IF q \in DOMAIN PolicyTable
              THEN AnsweredBy(PolicyTable[q])
              ELSE AnsweredBy(<<3600, << >> >>)]_vars

\* C27, amended: a request with one of the eight keys is answered with the
\* key's pair of the policy table and a request without a key with the 1h
\* policy; a request with any other key is rejected with status 422 and no
\* data, although the lookup of the policy would fall back to 1h for it.
C27_OtherKeyRejected ==
    [][\A q \in RequestRanges :
          get_metrics({q}) =>
              IF q \in DOMAIN PolicyTable
              THEN /\ AnsweredBy(PolicyTable[q])
                   /\ query'.range = q
                   /\ RangePolicy(q) = PolicyTable[q]
              ELSE IF q = NoRangeParam
              THEN AnsweredBy(PolicyTable["1h"]) /\ query'.range = "1h"
              ELSE /\ query'.status = 422
                   /\ query'.data = << >>
                   /\ RangePolicy(q) = <<3600, << >> >>]_vars

\* a request with range=5m has been rejected while the store holds a Sample
\* of the last hour
C27_Witness ==
    /\ query.range = "5m" /\ query.status = 422 /\ query.data = << >>
    /\ \E r \in store : r.timestamp >= query.now - 3600

\* what the spec names for a connection table that cannot be read
TotalZero == "Total" :> [tcp |-> 0, udp |-> 0]

\* psutil.net_connections is denied or fails with an OS error
ConnsUnreadable == net_conns.raises \in {"psutil.AccessDenied", "OSError"}

\* C28: when psutil.net_connections is denied or fails with an OS error, the
\* connection counts are exactly {"Total": {tcp: 0, udp: 0}}: in the tick,
\* which goes on and stores them, and in the reply of the snapshot read.
C28_DeniedConnectionsCountZero ==
    ConnsUnreadable =>
        /\ \A t \in Threads :
              pc[t] \in {"disk2", "disk3", "insert", "evict"} =>
                  tick[t].conn_data = TotalZero
        /\ \A r \in store : r.origin = "collector" => r.conn_json = <<TotalZero>>
        /\ reply.route = "/api/current" => reply.connections = TotalZero

\* access is denied; a tick has stored its Sample with the zero counts and a
\* snapshot read has been answered with them
C28_Witness ==
    /\ net_conns.raises = "psutil.AccessDenied"
    /\ \E r \in store : r.origin = "collector" /\ r.conn_json = <<TotalZero>>
    /\ \E t \in Threads : tick[t].outcome = "returned"
    /\ reply.route = "/api/current" /\ reply.connections = TotalZero

\* a step of a range query, a snapshot read or an interface listing
ReadStep == query' # query \/ reply' # reply \/ reqpc' # reqpc

\* C29: range queries, snapshot reads and interface listings leave the
\* stored Samples as they are; Samples are deleted only by the DELETE of a
\* collector tick, which is the last statement of the tick.
C29_ReadsLeaveStore ==
    [][/\ ReadStep => (store' = store /\ nextId' = nextId)
       /\ store \ store' # {} =>
             \E t \in Threads :
                 /\ InTick(t) /\ Evicts(t) /\ ~InTick(t)'
                 /\ store' = store \ {r \in store : r.timestamp < tick[t].now - 2678400}]_vars

\* a retention period after the first Sample a tick has stored the second
\* and deleted the first; since then a range query, a snapshot read and an
\* interface listing have run, and the second Sample is in the store
C29_Witness ==
    /\ \E t \in Threads : tick[t].outcome = "returned" /\ tick[t].deleted = 1
    /\ Cardinality(store) = 1
    /\ query.status = 200 /\ query.snapshot = store
    /\ nt_before # None /\ reqpc = "idle"
    /\ reply.route = "/api/interfaces"

C31_EvictionOutsideEveryWindow ==
    [][/\ \A key \in DOMAIN RANGE_MAP : RANGE_MAP[key][1] < 2678400
       /\ \A t \in Threads :
             Evicts(t) =>
                 \A r \in store \ store' :
                     \A key \in DOMAIN RANGE_MAP :
                         \A q \in ClockValues :
                             q >= tick[t].now => r.timestamp < q - RANGE_MAP[key][1]]_vars

\* a tick at 2,678,405 has deleted the Sample of time 0, and a query for the
\* range 1m at that time has returned the Sample the tick stored
C31_Witness ==
    /\ \E t \in Threads : tick[t].outcome = "returned" /\ tick[t].deleted = 1
    /\ query.range = "1m" /\ query.status = 200 /\ query.now = 2678405
    /\ Len(query.data) = 1
    /\ \A r \in store : r.timestamp = 2678405

\* counters c are a reading of the default interface itself, not the total
\* over all interfaces
FromDefaultNic(c) ==
    \E s \in TrackerNics : default_nic[1] \in DOMAIN s /\ c = s[default_nic[1]]

\* the step of thread t that computes the two rates of a tick
ComputesRates(t) == pc[t] = "net" /\ pc'[t] = "disk" /\ tick[t].elapsed > 0

\* C32: the two rates of a tick are computed from a previous and a current
\* reading of one counter source: both are counters of the default
\* interface, or both are the total over all interfaces.
C32_RateFromOneSource ==
    [][\A t \in Threads :
          ComputesRates(t) =>
              (FromDefaultNic(prev_net[1]) <=> FromDefaultNic(tick'[t].net))]_vars

\* the sum of one count over the entries of a result other than "Total"
RECURSIVE SumCounts(_, _, _)
SumCounts(counts, names, kind) ==
    IF names = {} THEN 0
    ELSE LET n == CHOOSE x \in names : TRUE
         IN  counts[n][kind] + SumCounts(counts, names \ {n}, kind)

\* the sockets of the connection table that are bound and of one type
Bound(type) ==
    {i \in DOMAIN net_conns.conns :
        net_conns.conns[i].laddr # << >> /\ net_conns.conns[i].type = type}

\* counts is a connection count result as the claim describes it
CountsAddUp(counts) ==
    /\ "Total" \in DOMAIN counts
    /\ counts["Total"].tcp = SumCounts(counts, DOMAIN counts \ {"Total"}, "tcp")
    /\ counts["Total"].udp = SumCounts(counts, DOMAIN counts \ {"Total"}, "udp")
    /\ ~ConnsUnreadable =>
          /\ counts["Total"].tcp = Cardinality(Bound("SOCK_STREAM"))
          /\ counts["Total"].udp = Cardinality(Bound("SOCK_DGRAM"))

\* C33: in every connection count result, of a tick, of a stored Sample and
\* of a snapshot read, Total.tcp is the sum of the tcp counts of the other
\* entries and Total.udp the sum of their udp counts, and a connection
\* without a local address is counted in no entry.
C33_TotalIsSumOfEntries ==
    /\ \A t \in Threads :
          pc[t] \in {"disk2", "disk3", "insert", "evict"} => CountsAddUp(tick[t].conn_data)
    /\ \A r \in store : r.origin = "collector" => CountsAddUp(r.conn_json[1])
    /\ reply.route = "/api/current" => CountsAddUp(reply.connections)

\* four sockets, one of them not bound and one bound to an address of no
\* interface: eth0 has one tcp and one udp, "other" one udp, Total one tcp
\* and two udp, in the stored Sample and in the reply
C33_Witness ==
    /\ Len(net_conns.conns) = 4
    /\ reply.route = "/api/current"
    /\ reply.connections =
          ("Total" :> [tcp |-> 1, udp |-> 2]) @@ ("eth0" :> [tcp |-> 1, udp |-> 1])
              @@ ("other" :> [tcp |-> 0, udp |-> 1])
    /\ \E r \in store : r.origin = "collector" /\ r.conn_json = <<reply.connections>>

\* C34: at most one benchmark run has worker processes that are alive or
\* about to be started, whatever the order of benchmark and stop requests.
C34_OneBenchmarkAtATime ==
    Cardinality({r \in 1..MaxRuns : bench.run[r] \in {"scheduled", "published", "alive"}}) <= 1

\* an upload that restore_db turns down
Rejected(u) == ~u.name_ok \/ ~u.is_sqlite

\* C35: a restore that is rejected, for its file name or because the upload
\* is no readable SQLite database, leaves the store and its sequence as they
\* were and no temporary file; a restore changes the store only to the rows
\* of an upload that passed both checks, and leaves no temporary file then.
C35_RejectedRestoreLeavesNothing ==
    [][\A u \in Uploads : RestoreRequest(u) =>
          /\ temp_db' = None
          /\ Rejected(u) => (store' = store /\ nextId' = nextId /\ restored'.status = 400)
          /\ ~Rejected(u) => (store' = u.rows /\ restored'.status = 200)]_vars

C35_Witness ==
    /\ restored.status = 400
    /\ restored.detail = "Corrupted or invalid database"
    /\ restored.upload = Some([name_ok |-> TRUE, is_sqlite |-> FALSE, rows |-> {}])
    /\ restored.live # {}
    /\ store = restored.live
    /\ temp_db = None

====
